---- MODULE Spec2Model ----
(***************************************************************************)
(* Model of the matching-bracket highlighter of src/src/highlight.rs:      *)
(* the pure helpers matching_bracket, is_open_bracket, is_close_bracket,   *)
(* find_matching_bracket and check_bracket, and the two operations of      *)
(* MatchingBracketHighlighter (highlight_char, highlight) acting on the    *)
(* one-slot bracket cache.                                                 *)
(*                                                                         *)
(* A line is a sequence of bytes; a byte is a one-character string (the    *)
(* escape byte 0x1b is written "ESC").  Rust indexes bytes from 0, TLA+    *)
(* sequences from 1: At(line, i) is line.as_bytes()[i].                    *)
(* Option<(u8, usize)> is None == <<>> or Some(b, i) == <<b, i>>.          *)
(* An out-of-range index or slice panics in Rust; the helpers return       *)
(* Panic for it.                                                           *)
(***************************************************************************)
EXTENDS Integers, Sequences, FiniteSets

VARIABLES
    bracket,   \* MatchingBracketHighlighter.bracket, the cache: Option<(u8, usize)>
    prev,      \* the cache as it was when the last operation was called
    op,        \* the operation that ran last (or the call about to run)
    line,      \* the line argument of that operation
    pos,       \* the pos argument of that operation
    forced,    \* the forced argument of the last highlight_char
    ret,       \* the bool the most recent highlight_char returned
    out,       \* the text the last highlight rendered
    failed,    \* TRUE once an operation panicked
    byte,      \* the bracket argument of find_matching_bracket (function runs)
    result,    \* the Option a helper function returned (function runs)
    reads,     \* the byte indexes a helper function read, in order (function runs)
    scan       \* find_matching_bracket's result and running index idx when it
               \* left its loop (function runs)

vars == <<bracket, prev, op, line, pos, forced, ret, out, failed, byte, result, reads,
          scan>>

----------------------------------------------------------------------------
\* Bounds

\* longest line given to the helper functions run on their own
MaxLen == 5
\* longest line given to the operations of one highlighter
MaxLineLen == 3

----------------------------------------------------------------------------
\* Bytes, lines, options

OpenBrackets == {"{", "[", "("}
CloseBrackets == {"}", "]", ")"}
Brackets == OpenBrackets \cup CloseBrackets

\* the six brackets and one byte that is no bracket
Bytes == Brackets \cup {"a"}

\* bytes of the lines given to the operations of one highlighter
LineBytes == {"(", ")", "a"}

LinesOver(alphabet, n) == UNION {[1..k -> alphabet] : k \in 0..n}

None == <<>>
Some(b, i) == <<b, i>>
Panic == <<"panic">>
IsSome(o) == Len(o) = 2

At(l, i) == l[i + 1]

----------------------------------------------------------------------------
\* const fn matching_bracket
matching_bracket(b) ==
    CASE b = "{" -> "}"
      [] b = "}" -> "{"
      [] b = "[" -> "]"
      [] b = "]" -> "["
      [] b = "(" -> ")"
      [] b = ")" -> "("
      [] OTHER -> b

\* const fn is_open_bracket
is_open_bracket(b) == b \in {"{", "[", "("}

\* const fn is_close_bracket
is_close_bracket(b) == b \in {"}", "]", ")"}

----------------------------------------------------------------------------
\* find_matching_bracket

\* forward_search without the count of nested brackets: the first counterpart wins
RECURSIVE forward_search_flat(_, _, _, _)
forward_search_flat(l, idx, unmatched, b) ==
    IF idx >= Len(l) THEN None
    ELSE IF At(l, idx) = matching_bracket(b)
         THEN Some(matching_bracket(b), idx)
         ELSE forward_search_flat(l, idx + 1, unmatched, b)

\* the forward loop: `for b in bytes` over line.as_bytes()[idx..]
RECURSIVE forward_search(_, _, _, _)
forward_search(l, idx, unmatched, b) ==
    IF idx >= Len(l) THEN None
    ELSE IF At(l, idx) = matching_bracket(b)
         THEN IF unmatched - 1 = 0
              THEN Some(matching_bracket(b), idx)
              ELSE forward_search(l, idx + 1, unmatched - 1, b)
         ELSE IF At(l, idx) = b
              THEN forward_search(l, idx + 1, unmatched + 1, b)
              ELSE forward_search(l, idx + 1, unmatched, b)

\* the backward loop: `for b in bytes.iter().rev()` over line.as_bytes()[..idx]
RECURSIVE backward_search(_, _, _, _)
backward_search(l, idx, unmatched, b) ==
    IF idx = 0 THEN None
    ELSE IF At(l, idx - 1) = matching_bracket(b)
         THEN IF unmatched - 1 = 0
              THEN Some(matching_bracket(b), idx - 1)
              ELSE backward_search(l, idx - 1, unmatched - 1, b)
         ELSE IF At(l, idx - 1) = b
              THEN backward_search(l, idx - 1, unmatched + 1, b)
              ELSE backward_search(l, idx - 1, unmatched, b)

\* fn find_matching_bracket(line, pos, bracket): the slices
\* line.as_bytes()[pos + 1..] and line.as_bytes()[..pos] panic when their
\* bound is past the end of the line
find_matching_bracket(l, p, b) ==
    IF is_open_bracket(b)
    THEN IF p + 1 > Len(l) THEN Panic ELSE forward_search(l, p + 1, 1, b)
    ELSE IF p > Len(l) THEN Panic ELSE backward_search(l, p, 1, b)

\* forward_loop that does not advance idx past a nested bracket
RECURSIVE forward_loop_skip(_, _, _, _)
forward_loop_skip(bytes, idx, unmatched, b) ==
    IF bytes = <<>> THEN [val |-> None, idx |-> idx]
    ELSE IF Head(bytes) = matching_bracket(b)
         THEN IF unmatched - 1 = 0
              THEN [val |-> Some(matching_bracket(b), idx), idx |-> idx]
              ELSE forward_loop_skip(Tail(bytes), idx + 1, unmatched - 1, b)
         ELSE IF Head(bytes) = b
              THEN forward_loop_skip(Tail(bytes), idx, unmatched + 1, b)
              ELSE forward_loop_skip(Tail(bytes), idx + 1, unmatched, b)

\* the forward loop with its two cursors: the iterator over the slice
\* bytes = line.as_bytes()[pos + 1..] and the running index idx, which the
\* loop advances by hand; idx is reported as it is when the loop is left
RECURSIVE forward_loop(_, _, _, _)
forward_loop(bytes, idx, unmatched, b) ==
    IF bytes = <<>> THEN [val |-> None, idx |-> idx]
    ELSE IF Head(bytes) = matching_bracket(b)
         THEN IF unmatched - 1 = 0
              THEN [val |-> Some(matching_bracket(b), idx), idx |-> idx]
              ELSE forward_loop(Tail(bytes), idx + 1, unmatched - 1, b)
         ELSE IF Head(bytes) = b
              THEN forward_loop(Tail(bytes), idx + 1, unmatched + 1, b)
              ELSE forward_loop(Tail(bytes), idx + 1, unmatched, b)

\* the backward loop with its two cursors: the reversed iterator over the
\* slice bytes = line.as_bytes()[..pos] and the running index idx
RECURSIVE backward_loop(_, _, _, _)
backward_loop(bytes, idx, unmatched, b) ==
    IF bytes = <<>> THEN [val |-> None, idx |-> idx]
    ELSE LET last == bytes[Len(bytes)]
             rest == SubSeq(bytes, 1, Len(bytes) - 1)
         IN IF last = matching_bracket(b)
            THEN IF unmatched - 1 = 0
                 THEN [val |-> Some(matching_bracket(b), idx - 1), idx |-> idx]
                 ELSE backward_loop(rest, idx - 1, unmatched - 1, b)
            ELSE IF last = b
                 THEN backward_loop(rest, idx - 1, unmatched + 1, b)
                 ELSE backward_loop(rest, idx - 1, unmatched, b)

\* fn find_matching_bracket(line, pos, bracket), with the running index idx
find_matching_bracket_run(l, p, b) ==
    IF is_open_bracket(b)
    THEN IF p + 1 > Len(l) THEN [val |-> Panic, idx |-> p + 1]
         ELSE forward_loop(SubSeq(l, p + 2, Len(l)), p + 1, 1, b)
    ELSE IF p > Len(l) THEN [val |-> Panic, idx |-> p]
         ELSE backward_loop(SubSeq(l, 1, p), p, 1, b)

----------------------------------------------------------------------------
\* check_bracket

\* check_loop that never clears under_cursor: it keeps stepping back
RECURSIVE check_loop_greedy(_, _, _, _)
check_loop_greedy(l, p, under_cursor, rd) ==
    LET b == At(l, p)
        rd2 == Append(rd, p)
    IN IF is_close_bracket(b)
       THEN [val |-> IF p = 0 THEN None ELSE Some(b, p), reads |-> rd2]
       ELSE IF is_open_bracket(b)
            THEN [val |-> IF p + 1 = Len(l) THEN None ELSE Some(b, p), reads |-> rd2]
            ELSE IF under_cursor /\ p > 0
                 THEN check_loop_greedy(l, p - 1, TRUE, rd2)
                 ELSE [val |-> None, reads |-> rd2]

\* the `loop` of check_bracket; rd is the sequence of indexes read so far
RECURSIVE check_loop(_, _, _, _)
check_loop(l, p, under_cursor, rd) ==
    LET b == At(l, p)
        rd2 == Append(rd, p)
    IN IF is_close_bracket(b)
       THEN [val |-> IF p = 0 THEN None ELSE Some(b, p), reads |-> rd2]
       ELSE IF is_open_bracket(b)
            THEN [val |-> IF p + 1 = Len(l) THEN None ELSE Some(b, p), reads |-> rd2]
            ELSE IF under_cursor /\ p > 0
                 THEN check_loop(l, p - 1, FALSE, rd2)
                 ELSE [val |-> None, reads |-> rd2]

\* fn check_bracket(line, pos), with the indexes it reads
check_bracket_run(l, p) ==
    IF Len(l) = 0 THEN [val |-> None, reads |-> <<>>]
    ELSE IF p >= Len(l)
         THEN LET q == Len(l) - 1
                  b == At(l, q)
              IN [val |-> IF is_close_bracket(b) THEN Some(b, q) ELSE None,
                  reads |-> <<q>>]
         ELSE check_loop(l, p, TRUE, <<>>)

check_bracket(l, p) == check_bracket_run(l, p).val

----------------------------------------------------------------------------
\* Running the helper functions on their own

\* the fields the function runs leave alone
NoHighlighter ==
    /\ bracket = None
    /\ prev = None
    /\ forced = FALSE
    /\ ret = FALSE
    /\ out = <<>>
    /\ failed = FALSE

\* a line and an anchor index holding a bracket
InitFind ==
    /\ NoHighlighter
    /\ op = "call find_matching_bracket"
    /\ line \in LinesOver(Bytes, MaxLen)
    /\ pos \in 0..(MaxLen - 1)
    /\ pos < Len(line)
    /\ byte = At(line, pos)
    /\ byte \in Brackets
    /\ result = None
    /\ reads = <<>>
    /\ scan = <<>>

RunFind ==
    /\ op = "call find_matching_bracket"
    /\ op' = "find_matching_bracket"
    /\ result' = find_matching_bracket(line, pos, byte)
    /\ scan' = find_matching_bracket_run(line, pos, byte)
    /\ UNCHANGED <<bracket, prev, line, pos, forced, ret, out, failed, byte, reads>>

SpecFind == InitFind /\ [][RunFind]_vars

\* a line and any cursor offset, also past the end
InitCheck ==
    /\ NoHighlighter
    /\ op = "call check_bracket"
    /\ line \in LinesOver(Bytes, MaxLen)
    /\ pos \in 0..(MaxLen + 1)
    /\ byte = ""
    /\ result = None
    /\ reads = <<>>
    /\ scan = <<>>

RunCheck ==
    /\ op = "call check_bracket"
    /\ op' = "check_bracket"
    /\ result' = check_bracket_run(line, pos).val
    /\ reads' = check_bracket_run(line, pos).reads
    /\ UNCHANGED <<bracket, prev, line, pos, forced, ret, out, failed, byte, scan>>

SpecCheck == InitCheck /\ [][RunCheck]_vars

----------------------------------------------------------------------------
\* Properties of find_matching_bracket (under SpecFind)

Min(S) == CHOOSE x \in S : \A y \in S : x <= y
Max(S) == CHOOSE x \in S : \A y \in S : x >= y

\* the unmatched counter of the nested search after the bytes lo..hi
Unmatched(l, b, lo, hi) ==
    1 + Cardinality({j \in lo..hi : At(l, j) = b})
      - Cardinality({j \in lo..hi : At(l, j) = matching_bracket(b)})

\* the reference nested search from the anchor a holding the bracket b
RefMatch(l, a, b) ==
    IF b \in OpenBrackets
    THEN LET zeros == {i \in (a + 1)..(Len(l) - 1) : Unmatched(l, b, a + 1, i) = 0}
         IN IF zeros = {} THEN None ELSE Some(matching_bracket(b), Min(zeros))
    ELSE LET zeros == {i \in 0..(a - 1) : Unmatched(l, b, i, a - 1) = 0}
         IN IF zeros = {} THEN None ELSE Some(matching_bracket(b), Max(zeros))

\* C1: for every line over Bytes and every anchor holding a bracket,
\* find_matching_bracket returns what the reference nested search returns:
\* the counterpart and the first index at which the unmatched counter
\* reaches 0, none when it never does.
C1_FindIsNestedSearch ==
    op = "find_matching_bracket" => result = RefMatch(line, pos, byte)

\* a nested pair lies between the anchor and the counterpart that is found
C1_Witness ==
    /\ op = "find_matching_bracket"
    /\ IsSome(result)
    /\ \E j \in 0..(Len(line) - 1) :
          /\ At(line, j) = byte
          /\ \/ pos < j /\ j < result[2]
             \/ result[2] < j /\ j < pos

\* C11: the debug assertions of find_matching_bracket hold for every line
\* and every anchor pos < len(line) holding the bracket: a returned index
\* holds the counterpart byte and lies after pos (opening bracket) or
\* before pos (closing bracket); a forward scan that finds no match ends
\* with idx = len(line), a backward scan that finds none with idx = 0.
C11_DebugAssertions ==
    op = "find_matching_bracket" =>
        /\ scan.val = result
        /\ (byte \in OpenBrackets /\ IsSome(scan.val)) =>
              /\ At(line, scan.idx) = matching_bracket(byte)
              /\ scan.val[2] = scan.idx
              /\ scan.val[2] > pos
              /\ scan.val[2] < Len(line)
        /\ (byte \in OpenBrackets /\ scan.val = None) => scan.idx = Len(line)
        /\ (byte \in CloseBrackets /\ IsSome(scan.val)) =>
              /\ At(line, scan.idx - 1) = matching_bracket(byte)
              /\ scan.val[2] = scan.idx - 1
              /\ scan.val[2] < pos
              /\ scan.val[2] >= 0
        /\ (byte \in CloseBrackets /\ scan.val = None) => scan.idx = 0

\* a forward scan that passed a nested bracket, and its counterpart, before
\* it returned the counterpart of the anchor
C11_Witness ==
    /\ op = "find_matching_bracket"
    /\ byte \in OpenBrackets
    /\ IsSome(scan.val)
    /\ scan.idx >= pos + 3
    /\ At(line, scan.idx) = matching_bracket(byte)
    /\ \E j \in (pos + 1)..(scan.idx - 1) : At(line, j) = byte

----------------------------------------------------------------------------
\* Properties of check_bracket (under SpecCheck)

\* C3: check_bracket never returns a closing bracket at index 0 and never
\* an opening bracket at the last index of the line, whatever the cursor
\* offset (also past the end).
C3_NoCloseAtStartNoOpenAtEnd ==
    (op = "check_bracket" /\ IsSome(result)) =>
        /\ ~(result[1] \in CloseBrackets /\ result[2] = 0)
        /\ ~(result[1] \in OpenBrackets /\ result[2] = Len(line) - 1)

\* what the byte at index q decides once it is the one inspected
Decides(l, q) ==
    LET b == At(l, q)
    IN IF b \in CloseBrackets /\ q > 0 THEN Some(b, q)
       ELSE IF b \in OpenBrackets /\ q < Len(l) - 1 THEN Some(b, q)
       ELSE None

\* C4: check_bracket reads at most two bytes.  Empty line: none.  Cursor at
\* or past the end: only the last byte is read and it is returned iff it
\* is a closing bracket.  Otherwise the byte under the cursor is read and
\* decides when it is a bracket; only when it is no bracket and pos > 0
\* is the byte at pos - 1 read, and it decides.  A returned (b, p) has
\* line[p] = b, b a bracket, p one of the indexes read.
C4_CheckBracketInspection ==
    op = "check_bracket" =>
        /\ Len(reads) <= 2
        /\ \A k \in 1..Len(reads) : reads[k] \in 0..(Len(line) - 1)
        /\ Len(line) = 0 => (result = None /\ reads = <<>>)
        /\ (Len(line) > 0 /\ pos >= Len(line)) =>
              /\ reads = <<Len(line) - 1>>
              /\ At(line, Len(line) - 1) \in CloseBrackets
                    => result = Some(At(line, Len(line) - 1), Len(line) - 1)
              /\ At(line, Len(line) - 1) \notin CloseBrackets => result = None
        /\ (pos < Len(line) /\ At(line, pos) \in Brackets) =>
              /\ reads = <<pos>>
              /\ result = Decides(line, pos)
        /\ (pos < Len(line) /\ At(line, pos) \notin Brackets /\ pos > 0) =>
              /\ reads = <<pos, pos - 1>>
              /\ result = Decides(line, pos - 1)
        /\ (pos < Len(line) /\ At(line, pos) \notin Brackets /\ pos = 0) =>
              /\ reads = <<0>>
              /\ result = None
        /\ IsSome(result) =>
              /\ result[1] \in Brackets
              /\ At(line, result[2]) = result[1]
              /\ result[2] = reads[Len(reads)]
              /\ result[2] \in (IF pos >= Len(line) THEN {Len(line) - 1}
                                ELSE {pos, pos - 1})

\* the byte under the cursor is no bracket and the one before it is returned
C4_Witness ==
    /\ op = "check_bracket"
    /\ pos > 0
    /\ pos < Len(line)
    /\ At(line, pos) \notin Brackets
    /\ reads = <<pos, pos - 1>>
    /\ result = Some(At(line, pos - 1), pos - 1)

----------------------------------------------------------------------------
\* MatchingBracketHighlighter

\* "\x1b[1;34m": bold, blue foreground
StartToken == <<"ESC", "[", "1", ";", "3", "4", "m">>
\* "\x1b[0m": reset
EndToken == <<"ESC", "[", "0", "m">>

\* format!("\x1b[1;34m{}\x1b[0m", matching as char)
styled(b) == StartToken \o <<b>> \o EndToken

\* replace_range that inserts the text and keeps the byte at idx
replace_range_insert(copy, idx, text) ==
    SubSeq(copy, 1, idx) \o text \o SubSeq(copy, idx + 1, Len(copy))

\* String::replace_range(idx..=idx, text)
replace_range(copy, idx, text) ==
    SubSeq(copy, 1, idx) \o text \o SubSeq(copy, idx + 2, Len(copy))

\* highlight that styles the cached bracket instead of its counterpart
highlight_anchor(l, br) ==
    IF Len(l) <= 1 THEN l
    ELSE IF br # None
         THEN LET m == find_matching_bracket(l, br[2], br[1])
              IN IF m = Panic THEN Panic
                 ELSE IF IsSome(m) THEN replace_range(l, br[2], styled(br[1]))
                 ELSE l
         ELSE l

\* highlight without the early return for lines of at most one byte
highlight_no_short_return(l, br) ==
    IF br # None
    THEN LET m == find_matching_bracket(l, br[2], br[1])
         IN IF m = Panic THEN Panic
            ELSE IF IsSome(m) THEN replace_range(l, m[2], styled(m[1]))
            ELSE l
    ELSE l

\* what highlight(line, _pos) does with the cache br: Panic, or the text
\* it returns
highlight(l, br) ==
    IF Len(l) <= 1 THEN l
    ELSE IF br # None
         THEN LET m == find_matching_bracket(l, br[2], br[1])
              IN IF m = Panic THEN Panic
                 ELSE IF IsSome(m) THEN replace_range(l, m[2], styled(m[1]))
                 ELSE l
         ELSE l

\* highlight_char whose forced call leaves the cache as it is
highlight_char_forced_keeps(l, p, f) == IF f THEN bracket ELSE check_bracket(l, p)

\* highlight_char that keeps the cached bracket when it finds none
highlight_char_sticky(l, p, f) ==
    IF f THEN None
    ELSE IF check_bracket(l, p) = None THEN bracket ELSE check_bracket(l, p)

\* highlight_char that fills the cache only when it is empty
highlight_char_fill(l, p, f) ==
    IF f THEN None
    ELSE IF bracket # None THEN bracket ELSE check_bracket(l, p)

\* what highlight_char(line, pos, forced) stores in the cache
highlight_char(l, p, f) == IF f THEN None ELSE check_bracket(l, p)

\* the line of the end-to-end scenario: "(a (b) c)"
Scenario == <<"(", "a", " ", "(", "b", ")", " ", "c", ")">>

\* lines that are themselves an escape sequence: "\x1b[1;34m" and "\x1b[0m"
TokenLines == {StartToken, EndToken}

\* the lines and cursor offsets the operations are called with
Lines == LinesOver(LineBytes, MaxLineLen) \cup {Scenario} \cup TokenLines
Positions == 0..MaxLineLen

\* MatchingBracketHighlighter::new()
Init ==
    /\ bracket = None
    /\ prev = None
    /\ op = "new"
    /\ line = <<>>
    /\ pos = 0
    /\ forced = FALSE
    /\ ret = FALSE
    /\ out = <<>>
    /\ failed = FALSE
    /\ byte = ""
    /\ result = None
    /\ reads = <<>>
    /\ scan = <<>>

\* highlight_char whose forced call returns false and forgets to clear the cache
HighlightChar_forced_stale(l, p, f) ==
    /\ ~failed
    /\ bracket' = IF f THEN bracket ELSE check_bracket(l, p)
    /\ prev' = bracket
    /\ ret' = IF f THEN FALSE ELSE IsSome(bracket')
    /\ op' = "highlight_char"
    /\ line' = l
    /\ pos' = p
    /\ forced' = f
    /\ out' = <<>>
    /\ UNCHANGED <<failed, byte, result, reads, scan>>

\* Highlighter::highlight_char(&mut self, line, pos, forced) -> bool
HighlightChar(l, p, f) ==
    /\ ~failed
    /\ bracket' = highlight_char(l, p, f)
    /\ prev' = bracket
    /\ ret' = IsSome(bracket')
    /\ op' = "highlight_char"
    /\ line' = l
    /\ pos' = p
    /\ forced' = f
    /\ out' = <<>>
    /\ UNCHANGED <<failed, byte, result, reads, scan>>

\* Highlighter::highlight(&mut self, line, _pos) -> impl DisplayOnce
Highlight(l, p) ==
    /\ ~failed
    /\ op' = "highlight"
    /\ line' = l
    /\ pos' = p
    /\ failed' = (highlight(l, bracket) = Panic)
    /\ out' = IF highlight(l, bracket) = Panic THEN <<>> ELSE highlight(l, bracket)
    /\ prev' = bracket
    /\ UNCHANGED <<bracket, forced, ret, byte, result, reads, scan>>

CallHighlightChar == \E l \in Lines, p \in Positions, f \in BOOLEAN : HighlightChar(l, p, f)
CallHighlight == \E l \in Lines, p \in Positions : Highlight(l, p)

Next == CallHighlightChar \/ CallHighlight

Spec == Init /\ [][Next]_vars

----------------------------------------------------------------------------
\* Properties of the operations of one highlighter (under Spec)

\* C2: no operation ever fails: every highlight_char and highlight call,
\* on any line and cursor offset and after any earlier calls, returns a
\* result, and no index outside the line is read or sliced.
C2_NoOperationFails == failed = FALSE

HasPrefix(t, tok) == Len(t) >= Len(tok) /\ SubSeq(t, 1, Len(tok)) = tok

\* the text with every start token and every end token removed
RECURSIVE Strip(_)
Strip(t) ==
    IF t = <<>> THEN <<>>
    ELSE IF HasPrefix(t, StartToken) THEN Strip(SubSeq(t, Len(StartToken) + 1, Len(t)))
    ELSE IF HasPrefix(t, EndToken) THEN Strip(SubSeq(t, Len(EndToken) + 1, Len(t)))
    ELSE <<Head(t)>> \o Strip(Tail(t))

\* how often the token occurs in the text
Occurrences(t, tok) ==
    Cardinality({k \in 1..Len(t) : HasPrefix(SubSeq(t, k, Len(t)), tok)})

\* the line with the one byte at idx wrapped in the start and end tokens
StyledAt(l, idx) ==
    SubSeq(l, 1, idx) \o StartToken \o <<At(l, idx)>> \o EndToken
        \o SubSeq(l, idx + 2, Len(l))

\* the line holds neither the start token nor the end token
HoldsNoToken(l) == Occurrences(l, StartToken) = 0 /\ Occurrences(l, EndToken) = 0

\* the cached anchor br lies past the end of the line l, so that the slice
\* find_matching_bracket takes of l is out of range
StaleAnchor(l, br) ==
    /\ Len(l) > 1
    /\ br # None
    /\ IF br[1] \in OpenBrackets THEN br[2] + 1 > Len(l) ELSE br[2] > Len(l)

C6_StylesCounterpart ==
    /\ (op = "highlight" /\ Len(line) > 1 /\ bracket # None
            /\ IsSome(find_matching_bracket(line, bracket[2], bracket[1]))) =>
          /\ ~failed
          /\ out = StyledAt(line, find_matching_bracket(line, bracket[2], bracket[1])[2])
    /\ (op = "highlight" /\ Len(line) > 1 /\ bracket # None
            /\ find_matching_bracket(line, bracket[2], bracket[1]) = None) =>
          /\ ~failed
          /\ out = line
    /\ (op = "highlight" /\ Len(line) > 1 /\ bracket = None) =>
          /\ ~failed
          /\ out = line
    /\ (op = "highlight_char" /\ line = Scenario /\ pos = 0 /\ ~forced) =>
          bracket = Some("(", 0)
    /\ (op = "highlight" /\ line = Scenario /\ bracket = Some("(", 0)) =>
          out = SubSeq(Scenario, 1, 8) \o StartToken \o <<")">> \o EndToken

\* the end-to-end scenario: the ')' at index 8 of "(a (b) c)" is styled
C6_Witness ==
    /\ op = "highlight"
    /\ line = Scenario
    /\ bracket = Some("(", 0)
    /\ out = StyledAt(Scenario, 8)

\* C7: highlight_char with forced = true leaves the cache empty and
\* returns false, whatever the line, the offset and the cache before.
C7_ForcedClears ==
    (op = "highlight_char" /\ forced) => (bracket = None /\ ret = FALSE)

\* a forced call that found a bracket in the cache
C7_Witness ==
    /\ op = "highlight_char"
    /\ forced
    /\ prev # None
    /\ bracket = None
    /\ ret = FALSE

\* C8: idempotence: highlight leaves the cache as it is; a highlight that
\* follows a highlight of the same line renders the same text; and the
\* highlight that follows highlight_char(line, pos, false) on the same
\* line renders a text that depends on line and pos only, so running the
\* pair again renders it again.
C8_Idempotent ==
    [][ /\ op' = "highlight" => bracket' = bracket
        /\ (op = "highlight" /\ ~failed /\ op' = "highlight" /\ line' = line) =>
              (~failed' /\ out' = out)
        /\ (op = "highlight_char" /\ ~forced /\ op' = "highlight" /\ line' = line) =>
              (~failed' /\ out' = highlight(line, check_bracket(line, pos)))
      ]_vars

\* highlight ran on the line and offset whose bracket is cached and styled
\* the counterpart
C8_Witness ==
    /\ op = "highlight"
    /\ ~failed
    /\ bracket # None
    /\ bracket = check_bracket(line, pos)
    /\ prev = bracket
    /\ out # line

\* C9: highlight on a line of at most one byte returns the line as it is,
\* whatever the cursor offset and the cache.
C9_ShortLineUnchanged ==
    (op = "highlight" /\ Len(line) <= 1) => (~failed /\ out = line)

\* a one-byte line rendered while the cache holds a bracket of a longer line
C9_Witness ==
    /\ op = "highlight"
    /\ Len(line) = 1
    /\ bracket # None
    /\ bracket[2] >= 1
    /\ out = line

\* C10: after highlight_char(line, pos, false) the cache is
\* check_bracket(line, pos), whatever it held before, and the call returned
\* true exactly when that is a bracket; the cache is non-empty iff the
\* most recent highlight_char returned true.
C10_CacheIsCheckBracket ==
    /\ (op = "highlight_char" /\ ~forced) =>
          /\ bracket = check_bracket(line, pos)
          /\ ret = (check_bracket(line, pos) # None)
    /\ (op \in {"highlight_char", "highlight"}) => (ret = (bracket # None))

\* a call that replaced a cached bracket by another one
C10_Witness ==
    /\ op = "highlight_char"
    /\ ~forced
    /\ prev # None
    /\ bracket # None
    /\ bracket # prev
    /\ ret = TRUE

\* C12: the repaint gate is sound: while the most recent highlight_char
\* returned false (a forced call, or no bracket at or just before the
\* cursor), every highlight returns the line it is given as it is, on any
\* line, and leaves the gate closed; only a highlight_char that returns
\* true opens it.
C12_RepaintGate ==
    [][ /\ (op' = "highlight" /\ ~ret) =>
              /\ ~failed'
              /\ out' = line'
              /\ ret' = ret
        /\ (~ret /\ ret') => (op' = "highlight_char" /\ ~forced' /\ bracket' # None)
      ]_vars

\* after a forced highlight_char closed the gate, highlight returned the
\* scenario line, whose brackets match, unstyled
C12_Witness ==
    /\ op = "highlight"
    /\ forced
    /\ ~ret
    /\ bracket = None
    /\ line = Scenario
    /\ out = Scenario
    /\ ~failed

====
